---- MODULE Spec2Model ----
(***************************************************************************)
(* The HTML to PDF conversion pipeline: the REST server (express, three     *)
(* conversion routes in front of a per-request HTMLToPDFConverter) and the *)
(* command line converter (html_to_pdf_converter.js, two variants).        *)
(*                                                                         *)
(* The rendering engine (puppeteer-html-pdf) is an external collaborator:  *)
(* create(content) returns PDF bytes or raises (error, timeout) and        *)
(* closeBrowser() returns or raises; both are nondeterministic here.       *)
(* A handler runs atomically between two awaits, as on the Node event loop.*)
(***************************************************************************)
EXTENDS Integers, Sequences, FiniteSets, TLC

\* The concurrent requests the server is observed with.
Reqs == {"r1", "r2"}

\* Number of distinct suffixes Date.now() + '-' + random can take in a run.
MaxSuffix == 2

VARIABLES pc, req, conv, resp, uploads, log, cli

vars == <<pc, req, conv, resp, uploads, log, cli>>
srvVars == <<pc, req, conv, resp, uploads, log>>

----------------------------------------------------------------------------
\* JavaScript values

Undefined == [type |-> "undefined", val |-> ""]
Str(s) == [type |-> "string", val |-> s]

Falsy_UndefinedOnly(v) == v.type = "undefined"

\* !x for the values a body field takes here: undefined and '' are falsy.
Falsy(v) == v.type = "undefined" \/ (v.type = "string" /\ v.val = "")

EmptyFields == [k \in {} |-> ""]
OptUndefined == [type |-> "undefined", fields |-> EmptyFields]
OptNull == [type |-> "null", fields |-> EmptyFields]
Obj(f) == [type |-> "object", fields |-> f]

\* const { key = d } = o : the default applies when the property is absent.
Get(f, key, d) == IF key \in DOMAIN f THEN f[key] ELSE d

\* `options = {}` (parameter default, destructuring default): only undefined
\* is replaced, null is kept.
DefaultParam(o) == IF o.type = "undefined" THEN Obj(EmptyFields) ELSE o

----------------------------------------------------------------------------
\* Option resolution in the server's convertHTML

DefaultMargin == [top |-> "20px", bottom |-> "20px", left |-> "20px", right |-> "20px"]

SandboxArgs == <<"--no-sandbox", "--disable-setuid-sandbox">>

PdfOptions_ScaleNotForwarded(f) ==
    [format |-> Get(f, "format", "A4"),
     landscape |-> (Get(f, "orientation", "portrait") = "landscape"),
     margin |-> Get(f, "margin", DefaultMargin),
     printBackground |-> Get(f, "printBackground", TRUE),
     scale |-> 10,
     timeout |-> Get(f, "timeout", 30000),
     headless |-> "new",
     args |-> SandboxArgs]

PdfOptions_Spread(f) ==
    f @@ [format |-> "A4", landscape |-> FALSE, margin |-> DefaultMargin,
          printBackground |-> TRUE, scale |-> 10, timeout |-> 30000,
          headless |-> "new", args |-> SandboxArgs]

PdfOptions_AnyCase(f) ==
    [format |-> Get(f, "format", "A4"),
     landscape |-> (Get(f, "orientation", "portrait") \in {"landscape", "Landscape"}),
     margin |-> Get(f, "margin", DefaultMargin),
     printBackground |-> Get(f, "printBackground", TRUE),
     scale |-> Get(f, "scale", 10),
     timeout |-> Get(f, "timeout", 30000),
     headless |-> "new",
     args |-> SandboxArgs]

\* scale is kept in tenths (1.0 is 10), timeout in milliseconds.
PdfOptions(f) ==
    [format |-> Get(f, "format", "A4"),
     landscape |-> (Get(f, "orientation", "portrait") = "landscape"),
     margin |-> Get(f, "margin", DefaultMargin),
     printBackground |-> Get(f, "printBackground", TRUE),
     scale |-> Get(f, "scale", 10),
     timeout |-> Get(f, "timeout", 30000),
     headless |-> "new",
     args |-> SandboxArgs]

NoPdfOptions == [unset |-> TRUE]

\* Destructuring null throws a TypeError before the try block is entered.
DestructureThrows(o) == o.type = "null"
TypeErrorMessage == <<"Cannot destructure property 'format' of 'options' as it is null.">>

----------------------------------------------------------------------------
\* Responses

\* The JSON object of a response that is neither an error nor a PDF.
NoBody == [formats |-> <<>>, orientations |-> <<>>, defaultOptions |-> EmptyFields]

NoResponse ==
    [status |-> 0, contentType |-> "", disposition |-> "", kind |-> "none",
     bytes |-> "", error |-> <<>>, body |-> NoBody]

\* res.status(code).json({ error: msg })
JsonError(code, msg) ==
    [status |-> code, contentType |-> "application/json", disposition |-> "",
     kind |-> "json", bytes |-> "", error |-> msg, body |-> NoBody]

\* res.setHeader(...); res.setHeader(...); res.send(pdfBuffer)
PdfResponse(buf) ==
    [status |-> 200, contentType |-> "application/pdf",
     disposition |-> "attachment; filename=\"converted.pdf\"",
     kind |-> "pdf", bytes |-> buf, error |-> <<>>, body |-> NoBody]

\* res.json(obj) of the two read-only endpoints and of nothing else.
JsonBody(what, obj) ==
    [status |-> 200, contentType |-> "application/json", disposition |-> "",
     kind |-> what, bytes |-> "", error |-> <<>>, body |-> obj]

OptionsBody_LetterDefault ==
    [formats |-> <<"A4", "Letter", "Legal", "Tabloid", "Ledger", "A0", "A1", "A2",
                   "A3", "A5", "A6">>,
     orientations |-> <<"portrait", "landscape">>,
     defaultOptions |->
        [format |-> "Letter", orientation |-> "portrait",
         margin |-> [top |-> "20px", bottom |-> "20px", left |-> "20px", right |-> "20px"],
         printBackground |-> TRUE, scale |-> 10, timeout |-> 30000]]

\* The object app.get('/api/options') answers with.
OptionsBody ==
    [formats |-> <<"A4", "Letter", "Legal", "Tabloid", "Ledger", "A0", "A1", "A2",
                   "A3", "A5", "A6">>,
     orientations |-> <<"portrait", "landscape">>,
     defaultOptions |->
        [format |-> "A4", orientation |-> "portrait",
         margin |-> [top |-> "20px", bottom |-> "20px", left |-> "20px", right |-> "20px"],
         printBackground |-> TRUE, scale |-> 10, timeout |-> 30000]]

----------------------------------------------------------------------------
\* The rendering engine (external): what create and closeBrowser can do.

\* The bytes the engine prints for a content source.
Rendered(content) == "%PDF-1.4 " \o content.val

CreateOutcomes(content) ==
    {[kind |-> "ok", bytes |-> Rendered(content), message |-> <<>>],
     [kind |-> "error", bytes |-> "", message |-> <<"net::ERR_NAME_NOT_RESOLVED">>],
     [kind |-> "timeout", bytes |-> "", message |-> <<"Navigation timeout exceeded">>]}

\* create(content) is the one entry point for markup and for URLs: the
\* engine is told nothing but the content, and navigates when that is a URL.
IsUrl(content) == content.val = "https://example.com"
HandedAs(content) == IF IsUrl(content) THEN "navigation target" ELSE "markup"

CloseOutcomes ==
    {[kind |-> "ok", message |-> <<>>],
     [kind |-> "raise", message |-> <<"Protocol error: Target closed">>]}

----------------------------------------------------------------------------
\* Requests

HtmlInputs == {Undefined, Str(""), Str("<h1>Hi</h1>"), Str("https://example.com")}
UrlInputs == {Undefined, Str(""), Str("https://example.com")}

CustomFields == [format |-> "Letter", orientation |-> "landscape", margin |-> [top |-> "5px"]]

OptionInputs == {OptUndefined, OptNull, Obj(CustomFields)}

\* The options objects a JSON body can carry: each key absent or present.
\* A property is a one-key object, an object the merge of its properties.
Property(key, values) == {EmptyFields} \cup {key :> v : v \in values}

OptionObjects ==
    {a @@ b @@ c @@ d @@ e @@ f @@ g :
        a \in Property("format", {"Letter"}),
        b \in Property("orientation", {"portrait", "landscape", "Landscape"}),
        c \in Property("margin", {[top |-> "5px"],
                                   [top |-> "1cm", bottom |-> "1cm", left |-> "2cm", right |-> "2cm"]}),
        d \in Property("printBackground", {FALSE}),
        e \in Property("scale", {15}),
        f \in Property("timeout", {5000}),
        g \in Property("path", {"/tmp/x.pdf"}) \cup Property("headless", {"shell"})
                \cup Property("args", {<<"--remote-debugging-port=9222">>})}

\* Every value of the `options` member of a JSON body: absent, null, a
\* string (it has none of the properties read), or an object.
OptionValues ==
    {OptUndefined, OptNull, [type |-> "string", fields |-> EmptyFields]}
    \cup {Obj(f) : f \in OptionObjects}

\* req.file: path is the name multer stored it under (0: not stored).
\* originalname is kept as its dot-separated pieces: <<"page", ".html">>.
NoFile ==
    [present |-> FALSE, mimetype |-> "", originalname |-> <<>>, size |-> 0, data |-> "",
     path |-> 0]

FileSizeLimit_ProxyCeiling == 50 * 1024 * 1024

\* limits: { fileSize: 10 * 1024 * 1024 }
FileSizeLimit == 10 * 1024 * 1024

Upload(mimetype, originalname, size) ==
    [present |-> TRUE, mimetype |-> mimetype, originalname |-> originalname,
     size |-> size, data |-> "<p>upload</p>", path |-> 0]

\* The upload of the test client: a text/html blob named *.html.
StandardUpload == Upload("text/html", <<"page", ".html">>, FileSizeLimit)

FileParts ==
    {NoFile, Upload("text/html", <<"page", ".html">>, FileSizeLimit + 1)}
    \cup {Upload(m, n, FileSizeLimit) :
            m \in {"text/html", "text/plain"},
            n \in {<<"page", ".html">>, <<"notes", ".txt">>}}

\* The text of the multipart `options` field.
OptionTexts ==
    {Undefined, Str("{bad json"),
     Str("{\"format\":\"Letter\",\"orientation\":\"landscape\",\"margin\":{\"top\":\"5px\"}}")}

\* JSON.parse on the texts above: the value, or a SyntaxError.
JSONParse(text) ==
    CASE text = "null" -> [ok |-> TRUE, value |-> OptNull, message |-> <<>>]
      [] text = "{\"format\":\"Letter\",\"orientation\":\"landscape\",\"margin\":{\"top\":\"5px\"}}"
            -> [ok |-> TRUE, value |-> Obj(CustomFields), message |-> <<>>]
      [] OTHER -> [ok |-> FALSE, value |-> OptUndefined,
                   message |-> <<"Unexpected token in JSON">>]

Request(e, c, o, f, t) ==
    [endpoint |-> e, content |-> c, options |-> o, file |-> f, optionsField |-> t]

Requests ==
    {Request("string", h, o, NoFile, Undefined) : h \in HtmlInputs, o \in OptionInputs}
    \cup {Request("url", u, o, NoFile, Undefined) : u \in UrlInputs, o \in OptionInputs}
    \cup {Request("file", Undefined, OptUndefined, f, Undefined) : f \in FileParts}
    \cup {Request("file", Undefined, OptUndefined, StandardUpload, t) : t \in OptionTexts}
    \cup {Request(e, Undefined, OptUndefined, NoFile, Undefined) :
            e \in {"health", "options", "other"}}

NoRequest == Request("none", Undefined, OptUndefined, NoFile, Undefined)

----------------------------------------------------------------------------
\* State

\* The upload directory: suffix -> the file stored under that name.
Suffixes == 1..MaxSuffix
NoEntry == [exists |-> FALSE, owner |-> "", data |-> ""]

\* A converter and its engine handle (this.htmlPDF).
NoConverter ==
    [made |-> FALSE, content |-> Undefined, pdfOptions |-> NoPdfOptions,
     browser |-> "none", outcome |-> "none", bytes |-> "", engineMessage |-> <<>>,
     message |-> <<>>]

\* The command line process before it is started.
CliOff == [pc |-> "off"]

Init ==
    /\ pc = [r \in Reqs |-> "idle"]
    /\ req = [r \in Reqs |-> NoRequest]
    /\ conv = [r \in Reqs |-> NoConverter]
    /\ resp = [r \in Reqs |-> NoResponse]
    /\ uploads = [n \in Suffixes |-> NoEntry]
    /\ log = [r \in Reqs |-> <<>>]
    /\ cli = CliOff

Count(s, e) == Cardinality({i \in DOMAIN s : s[i] = e})
Pos(s, e) == IF \E i \in DOMAIN s : s[i] = e
             THEN CHOOSE i \in DOMAIN s : s[i] = e /\ \A j \in DOMAIN s : s[j] = e => i <= j
             ELSE 0

Send_Twice(r, response, events) ==
    /\ resp' = [resp EXCEPT ![r] = response]
    /\ log' = [log EXCEPT ![r] = @ \o events \o <<"respond", "respond">>]
    /\ pc' = [pc EXCEPT ![r] = "done"]

\* A response leaves the server and the request is over.
Send(r, response, events) ==
    /\ resp' = [resp EXCEPT ![r] = response]
    /\ log' = [log EXCEPT ![r] = @ \o events \o <<"respond">>]
    /\ pc' = [pc EXCEPT ![r] = "done"]

----------------------------------------------------------------------------
\* The server

\* A request reaches the express pipeline (cors, body parsers).
ArriveWith(r, S) ==
    /\ pc[r] = "idle"
    /\ \E q \in S : req' = [req EXCEPT ![r] = q]
    /\ pc' = [pc EXCEPT ![r] = "received"]
    /\ log' = [log EXCEPT ![r] = <<"arrive">>]
    /\ UNCHANGED <<conv, resp, uploads, cli>>

Arrive(r) == ArriveWith(r, Requests)

RouteCatch_Status200(r, message, events) == Send(r, JsonError(200, message), events)

\* catch (error) { res.status(500).json({ error: error.message }) } of a route.
RouteCatch(r, message, events) == Send(r, JsonError(500, message), events)

FinallyCloses_OnSuccessOnly(outcome) == outcome = "ok"
FinallyCloses_NotOnError(outcome) == outcome # "error"
FinallyCloses_NotOnTimeout(outcome) == outcome # "timeout"

\* The finally block of convertHTML runs closeBrowser whatever create did.
FinallyCloses(outcome) == TRUE

WrapError_Bare(message) == message

\* catch (error) { throw new Error(`PDF creation failed: ${error.message}`) }
WrapError(message) == <<"PDF creation failed: ">> \o message

\* new HTMLToPDFConverter() and converter.convertHTML(content, options), up to
\* the await of this.htmlPDF.create(htmlContent).
CallConvertHTML(r, content, options, events) ==
    LET o == DefaultParam(options) IN
    IF DestructureThrows(o)
    THEN /\ conv' = [conv EXCEPT ![r].made = TRUE]
         /\ RouteCatch(r, TypeErrorMessage, events \o <<"new">>)
    ELSE /\ conv' = [conv EXCEPT ![r] =
                        [@ EXCEPT !.made = TRUE, !.content = content,
                                  !.pdfOptions = PdfOptions(o.fields),
                                  !.browser = "open"]]
         /\ log' = [log EXCEPT ![r] = @ \o events \o <<"new", "setOptions", "create">>]
         /\ pc' = [pc EXCEPT ![r] = "awaitCreate"]
         /\ UNCHANGED resp

\* app.post('/api/convert/string')
ConvertString(r) ==
    /\ pc[r] = "received"
    /\ req[r].endpoint = "string"
    /\ IF Falsy(req[r].content)
       THEN /\ Send(r, JsonError(400, <<"HTML content is required">>), <<"handler">>)
            /\ UNCHANGED conv
       ELSE CallConvertHTML(r, req[r].content, DefaultParam(req[r].options), <<"handler">>)
    /\ UNCHANGED <<req, uploads, cli>>

\* app.post('/api/convert/url')
ConvertUrl(r) ==
    /\ pc[r] = "received"
    /\ req[r].endpoint = "url"
    /\ IF Falsy(req[r].content)
       THEN /\ Send(r, JsonError(400, <<"URL is required">>), <<"handler">>)
            /\ UNCHANGED conv
       ELSE CallConvertHTML(r, req[r].content, DefaultParam(req[r].options), <<"handler">>)
    /\ UNCHANGED <<req, uploads, cli>>

EngineCreate_Retry(r) ==
    /\ pc[r] = "awaitCreate"
    /\ \E out \in CreateOutcomes(conv[r].content) :
        /\ conv' = [conv EXCEPT ![r] =
                        [@ EXCEPT !.outcome = out.kind, !.bytes = out.bytes,
                                  !.engineMessage = out.message,
                                  !.message = IF out.kind = "ok" THEN <<>>
                                              ELSE WrapError(out.message)]]
        /\ IF out.kind # "ok" /\ Count(log[r], "create") < 2
           THEN /\ log' = [log EXCEPT ![r] = @ \o <<"create:" \o out.kind, "create">>]
                /\ pc' = pc
           ELSE /\ log' = [log EXCEPT ![r] = @ \o <<"create:" \o out.kind, "closeBrowser">>]
                /\ pc' = [pc EXCEPT ![r] = "awaitClose"]
    /\ UNCHANGED <<req, resp, uploads, cli>>

\* this.htmlPDF.create(htmlContent) settles; the try/catch/finally of
\* convertHTML then reaches the await of closeBrowser.
EngineCreate(r) ==
    /\ pc[r] = "awaitCreate"
    /\ \E out \in CreateOutcomes(conv[r].content) :
        /\ conv' = [conv EXCEPT ![r] =
                        [@ EXCEPT !.outcome = out.kind, !.bytes = out.bytes,
                                  !.engineMessage = out.message,
                                  !.message = IF out.kind = "ok" THEN <<>>
                                              ELSE WrapError(out.message)]]
        /\ IF FinallyCloses(out.kind)
           THEN /\ log' = [log EXCEPT ![r] = @ \o <<"create:" \o out.kind, "closeBrowser">>]
                /\ pc' = [pc EXCEPT ![r] = "awaitClose"]
           ELSE /\ log' = [log EXCEPT ![r] = @ \o <<"create:" \o out.kind>>]
                /\ pc' = [pc EXCEPT ![r] = "resume"]
    /\ UNCHANGED <<req, resp, uploads, cli>>

EngineClose_SharedBrowser(r) ==
    /\ pc[r] = "awaitClose"
    /\ \E out \in CloseOutcomes :
        /\ conv' = [q \in Reqs |->
                        IF q = r
                        THEN [conv[q] EXCEPT
                                 !.browser = IF out.kind = "ok" THEN "closed" ELSE @,
                                 !.message = IF out.kind = "ok" THEN @ ELSE out.message]
                        ELSE [conv[q] EXCEPT
                                 !.browser = IF @ = "open" /\ out.kind = "ok"
                                             THEN "closed" ELSE @]]
        /\ log' = [log EXCEPT ![r] = @ \o <<"closeBrowser:" \o out.kind>>]
    /\ pc' = [pc EXCEPT ![r] = "resume"]
    /\ UNCHANGED <<req, resp, uploads, cli>>

EngineClose_ErrorSwallowed(r) ==
    /\ pc[r] = "awaitClose"
    /\ \E out \in CloseOutcomes :
        /\ conv' = [conv EXCEPT ![r] =
                        [@ EXCEPT !.browser = IF out.kind = "ok" THEN "closed" ELSE @]]
        /\ log' = [log EXCEPT ![r] = @ \o <<"closeBrowser:" \o out.kind>>]
    /\ pc' = [pc EXCEPT ![r] = "resume"]
    /\ UNCHANGED <<req, resp, uploads, cli>>

\* this.htmlPDF.closeBrowser() settles; an error raised in the finally block
\* replaces the pending return value or error. convertHTML is settled.
EngineClose(r) ==
    /\ pc[r] = "awaitClose"
    /\ \E out \in CloseOutcomes :
        /\ conv' = [conv EXCEPT ![r] =
                        [@ EXCEPT !.browser = IF out.kind = "ok" THEN "closed" ELSE @,
                                  !.message = IF out.kind = "ok" THEN @ ELSE out.message]]
        /\ log' = [log EXCEPT ![r] = @ \o <<"closeBrowser:" \o out.kind>>]
    /\ pc' = [pc EXCEPT ![r] = "resume"]
    /\ UNCHANGED <<req, resp, uploads, cli>>

\* convertHTML returned normally: its promise resolves with the buffer.
Returned(c) == c.message = <<>>

\* The route continues after `await converter.convertHTML(...)`.
ResumeRoute(r) ==
    /\ pc[r] = "resume"
    /\ req[r].endpoint \in {"string", "url"}
    /\ IF Returned(conv[r])
       THEN Send(r, PdfResponse(conv[r].bytes), <<>>)
       ELSE RouteCatch(r, conv[r].message, <<>>)
    /\ UNCHANGED <<req, conv, uploads, cli>>

ErrorMiddleware_Status400(r, message, events) == Send(r, JsonError(400, message), events)

\* Error handling middleware: app.use((error, req, res, next) => ...)
ErrorMiddleware(r, message, events) == Send(r, JsonError(500, message), events)

\* originalname.endsWith('.html')
EndsWith(name, suffix) == Len(name) > 0 /\ name[Len(name)] = suffix

FileFilter_Both(file) == file.mimetype = "text/html" /\ EndsWith(file.originalname, ".html")

\* fileFilter of the multer instance
FileFilter(file) == file.mimetype = "text/html" \/ EndsWith(file.originalname, ".html")

\* upload.single('htmlFile'): filter, then store under uploads/ with a fresh
\* suffix; an upload over the size limit is removed again and reported.
MulterUpload(r) ==
    /\ pc[r] = "received"
    /\ req[r].endpoint = "file"
    /\ IF ~req[r].file.present
       THEN /\ pc' = [pc EXCEPT ![r] = "handler"]
            /\ UNCHANGED <<req, resp, uploads, log>>
       ELSE IF ~FileFilter(req[r].file)
       THEN /\ ErrorMiddleware(r, <<"Only HTML files are allowed!">>, <<"fileFilter:reject">>)
            /\ UNCHANGED <<req, uploads>>
       ELSE \E n \in Suffixes :
            IF req[r].file.size > FileSizeLimit
            THEN /\ uploads' = [uploads EXCEPT ![n] = NoEntry]
                 /\ ErrorMiddleware(r, <<"File too large">>, <<"write", "unlink">>)
                 /\ UNCHANGED req
            ELSE /\ uploads' = [uploads EXCEPT ![n] =
                                   [exists |-> TRUE, owner |-> r, data |-> req[r].file.data]]
                 /\ req' = [req EXCEPT ![r].file.path = n]
                 /\ log' = [log EXCEPT ![r] = @ \o <<"write">>]
                 /\ pc' = [pc EXCEPT ![r] = "handler"]
                 /\ UNCHANGED resp
    /\ UNCHANGED <<conv, cli>>

FileOptions_Ignored(text) == [ok |-> TRUE, value |-> Obj(EmptyFields), message |-> <<>>]

\* req.body.options ? JSON.parse(req.body.options) : {}
FileOptions(text) ==
    IF Falsy(text) THEN [ok |-> TRUE, value |-> Obj(EmptyFields), message |-> <<>>]
    ELSE JSONParse(text.val)

\* app.post('/api/convert/file'), up to the await of fs.readFile
ConvertFile(r) ==
    /\ pc[r] = "handler"
    /\ IF ~req[r].file.present
       THEN Send(r, JsonError(400, <<"HTML file is required">>), <<"handler">>)
       ELSE IF ~FileOptions(req[r].optionsField).ok
       THEN RouteCatch(r, FileOptions(req[r].optionsField).message,
                       <<"handler", "JSON.parse:throw">>)
       ELSE /\ pc' = [pc EXCEPT ![r] = "awaitRead"]
            /\ log' = [log EXCEPT ![r] = @ \o <<"handler", "readFile">>]
            /\ UNCHANGED resp
    /\ UNCHANGED <<req, conv, uploads, cli>>

\* fs.readFile settles, then the converter is made and convertHTML called.
ReadFile(r) ==
    /\ pc[r] = "awaitRead"
    /\ LET entry == uploads[req[r].file.path] IN
       IF ~entry.exists
       THEN /\ RouteCatch(r, <<"ENOENT: no such file or directory">>, <<"readFile:throw">>)
            /\ UNCHANGED conv
       ELSE CallConvertHTML(r, Str(entry.data), FileOptions(req[r].optionsField).value,
                            <<"readFile:ok">>)
    /\ UNCHANGED <<req, uploads, cli>>

\* The file route continues after `await converter.convertHTML(...)`:
\* fs.remove(req.file.path) is called on the success path only.
ResumeFile(r) ==
    /\ pc[r] = "resume"
    /\ req[r].endpoint = "file"
    /\ IF Returned(conv[r])
       THEN /\ pc' = [pc EXCEPT ![r] = "awaitRemove"]
            /\ log' = [log EXCEPT ![r] = @ \o <<"remove">>]
            /\ UNCHANGED resp
       ELSE RouteCatch(r, conv[r].message, <<>>)
    /\ UNCHANGED <<req, conv, uploads, cli>>

\* fs.remove settles (no error when the path is already gone); the PDF is sent.
RemoveFile(r) ==
    /\ pc[r] = "awaitRemove"
    /\ uploads' = [uploads EXCEPT ![req[r].file.path] = NoEntry]
    /\ Send(r, PdfResponse(conv[r].bytes), <<"remove:ok">>)
    /\ UNCHANGED <<req, conv, cli>>

\* app.get('/health')
Health(r) ==
    /\ pc[r] = "received"
    /\ req[r].endpoint = "health"
    /\ Send(r, JsonBody("health", NoBody), <<>>)
    /\ UNCHANGED <<req, conv, uploads, cli>>

\* app.get('/api/options')
GetOptions(r) ==
    /\ pc[r] = "received"
    /\ req[r].endpoint = "options"
    /\ Send(r, JsonBody("options", OptionsBody), <<>>)
    /\ UNCHANGED <<req, conv, uploads, cli>>

\* 404 handler: app.use((req, res) => ...)
NotFound(r) ==
    /\ pc[r] = "received"
    /\ req[r].endpoint = "other"
    /\ Send(r, JsonError(404, <<"Endpoint not found">>), <<>>)
    /\ UNCHANGED <<req, conv, uploads, cli>>

\* One step of the server on behalf of request r.
ServerStep(r) ==
    \/ Arrive(r)
    \/ ConvertString(r)
    \/ ConvertUrl(r)
    \/ MulterUpload(r)
    \/ ConvertFile(r)
    \/ ReadFile(r)
    \/ EngineCreate(r)
    \/ EngineClose(r)
    \/ ResumeRoute(r)
    \/ ResumeFile(r)
    \/ RemoveFile(r)
    \/ Health(r)
    \/ GetOptions(r)
    \/ NotFound(r)

ServerNext == \E r \in Reqs : ServerStep(r)

\* A client asks for /api/options ...
Discover == ArriveWith("r1", {Request("options", Undefined, OptUndefined, NoFile, Undefined)})

\* ... and posts a conversion whose options are any JSON value, the
\* defaultOptions it was answered with included.
Advertised ==
    IF resp["r1"].kind = "options" THEN {Obj(resp["r1"].body.defaultOptions)} ELSE {}

PostOptions ==
    ArriveWith("r2", {Request("string", Str("<h1>Hi</h1>"), o, NoFile, Undefined) :
                        o \in OptionValues \cup Advertised})

OptNext ==
    \/ Discover
    \/ GetOptions("r1")
    \/ PostOptions
    \/ ConvertString("r2")
    \/ EngineCreate("r2")
    \/ EngineClose("r2")
    \/ ResumeRoute("r2")

----------------------------------------------------------------------------
\* The command line converter (html_to_pdf_converter.js). Two variants of
\* the convert command exist: -o optional (first) and -o required (second).

\* A file path: absolute or not, its directories, and the stem and
\* extension of its last component.
NoPath == [given |-> FALSE, abs |-> FALSE, dirs |-> <<>>, stem |-> "", ext |-> ""]
Path(abs, dirs, stem, ext) ==
    [given |-> TRUE, abs |-> abs, dirs |-> dirs, stem |-> stem, ext |-> ext]

\* path.join(__dirname, 'uploads')
ScriptDir == <<"app">>
UploadsDir == [abs |-> TRUE, dirs |-> ScriptDir \o <<"uploads">>]

\* path.dirname(p)
Dirname(p) == [abs |-> p.abs, dirs |-> p.dirs]

\* path.join(uploadsDir, p) for a relative p
JoinUploads(p) == [p EXCEPT !.abs = TRUE, !.dirs = UploadsDir.dirs \o @]

\* outputPath.startsWith('uploads/')
StartsWithUploads(p) == Len(p.dirs) > 0 /\ p.dirs[1] = "uploads"

\* A URL argument: the text, whether new URL(text) parses it, and the labels
\* of its hostname.
NoUrl == [given |-> FALSE, valid |-> FALSE, host |-> <<>>, text |-> ""]

\* hostname.replace(/[^a-zA-Z0-9]/g, '_') on dot-separated alphanumeric labels
RECURSIVE Sanitize(_)
Sanitize(host) ==
    IF Len(host) = 0 THEN ""
    ELSE IF Len(host) = 1 THEN host[1]
    ELSE host[1] \o "_" \o Sanitize(Tail(host))

\* new Date().toISOString().replace(/[:.]/g, '-')
Timestamps == {"2025-08-03T15-20-31-000Z"}

CliInputs ==
    {NoPath, Path(FALSE, <<>>, "sample", ".html"), Path(FALSE, <<"docs">>, "missing", ".html")}
CliUrls ==
    {NoUrl,
     [given |-> TRUE, valid |-> TRUE, host |-> <<"example", "com">>, text |-> "https://example.com"],
     [given |-> TRUE, valid |-> FALSE, host |-> <<>>, text |-> "not a url"]}
CliStrings == {Undefined, Str("<h1>Hello</h1>")}
CliOutputs ==
    {NoPath, Path(FALSE, <<>>, "out", ".pdf"), Path(FALSE, <<"uploads">>, "out", ".pdf"),
     Path(TRUE, <<"tmp">>, "out", ".pdf")}

\* The input files that exist on disk.
ExistingInputs == {Path(FALSE, <<>>, "sample", ".html")}

CliArgs ==
    [variant : {"optional", "required"}, input : CliInputs, url : CliUrls,
     string : CliStrings, output : CliOutputs]

\* The pdfOptions record the action builds from commander's defaults
\* (margin '20,20,20,20', scale '1.0', timeout '30000').
CliOptionFields ==
    [format |-> "A4", orientation |-> "portrait", margin |-> DefaultMargin,
     printBackground |-> TRUE, scale |-> 10, timeout |-> 30000]

\* convertHTML(htmlContent, outputPdf, options) of the command line class
CliPdfOptions(f, outputPdf) ==
    [format |-> Get(f, "format", "A4"),
     landscape |-> (Get(f, "orientation", "portrait") = "landscape"),
     margin |-> Get(f, "margin", DefaultMargin),
     printBackground |-> Get(f, "printBackground", TRUE),
     scale |-> Get(f, "scale", 10),
     timeout |-> Get(f, "timeout", 30000),
     headless |-> Get(f, "headless", "new"),
     path |-> outputPdf,
     args |-> SandboxArgs]

\* node html_to_pdf_converter.js convert ...
CliStart ==
    /\ cli.pc = "off"
    /\ \E a \in CliArgs, ts \in Timestamps :
        cli' = [pc |-> "action", args |-> a, timestamp |-> ts, outputPath |-> NoPath,
                made |-> FALSE, content |-> Undefined, pdfOptions |-> NoPdfOptions,
                browser |-> "none", thrown |-> FALSE, dirs |-> {}, written |-> {},
                exit |-> -1, uncaught |-> FALSE, log |-> <<>>]
    /\ UNCHANGED srvVars

NoSource_Never(a) == FALSE

\* if (!options.input && !options.url && !options.string)
NoSource(a) == ~a.input.given /\ ~a.url.given /\ Falsy(a.string)

\* Default output name of the -o optional variant.
DefaultOutput(a, ts) ==
    IF a.input.given
        THEN [given |-> TRUE, abs |-> TRUE, dirs |-> UploadsDir.dirs,
              stem |-> a.input.stem \o "_" \o ts, ext |-> ".pdf"]
    ELSE IF a.url.given
        THEN [given |-> TRUE, abs |-> TRUE, dirs |-> UploadsDir.dirs,
              stem |-> Sanitize(a.url.host) \o "_" \o ts, ext |-> ".pdf"]
    ELSE IF ~Falsy(a.string)
        THEN [given |-> TRUE, abs |-> TRUE, dirs |-> UploadsDir.dirs,
              stem |-> "string_" \o ts, ext |-> ".pdf"]
    ELSE NoPath

\* Output path resolution of the -o optional variant.
ResolveOutput(a, ts) ==
    IF ~a.output.given THEN DefaultOutput(a, ts)
    ELSE IF ~a.output.abs /\ ~StartsWithUploads(a.output) THEN JoinUploads(a.output)
    ELSE a.output

\* new URL(options.url) throws on a malformed URL; it is evaluated only when
\* -o and -i are omitted and -u is given.
UrlParseThrows(a) ==
    ~a.output.given /\ ~a.input.given /\ a.url.given /\ ~a.url.valid

\* process.exit(code): nothing after it runs, pending finally blocks included.
Exit(code, events) ==
    [cli EXCEPT !.pc = "exited", !.exit = code, !.log = @ \o events \o <<"exit">>]

\* The action of the convert command up to `new HTMLToPDFConverter()`.
CliAction ==
    /\ cli.pc = "action"
    /\ LET a == cli.args IN
       IF a.variant = "optional"
       THEN IF UrlParseThrows(a)
            THEN cli' = [cli EXCEPT !.pc = "exited", !.exit = 0, !.uncaught = TRUE,
                                    !.dirs = @ \cup {UploadsDir},
                                    !.log = @ \o <<"ensureDir", "uncaught">>]
            ELSE IF NoSource(a)
            THEN cli' = [Exit(1, <<"ensureDir">>) EXCEPT
                            !.dirs = @ \cup {UploadsDir},
                            !.outputPath = ResolveOutput(a, cli.timestamp)]
            ELSE cli' = [cli EXCEPT !.pc = "convert", !.made = TRUE,
                                    !.dirs = @ \cup {UploadsDir},
                                    !.outputPath = ResolveOutput(a, cli.timestamp),
                                    !.log = @ \o <<"ensureDir", "new">>]
       ELSE IF ~a.output.given \/ NoSource(a)
            THEN cli' = Exit(1, <<>>)
            ELSE cli' = [cli EXCEPT !.pc = "convert", !.made = TRUE,
                                    !.outputPath = a.output,
                                    !.log = @ \o <<"new">>]
    /\ UNCHANGED srvVars

\* What the action hands to the converter: file contents, URL or string.
CliContent(a) ==
    IF a.input.given THEN Str("<contents of " \o a.input.stem \o a.input.ext \o ">")
    ELSE IF a.url.given THEN Str(a.url.text)
    ELSE a.string

CliConvert_EnsureDirFirst ==
    /\ cli.pc = "convert"
    /\ LET a == cli.args IN
       IF a.input.given /\ a.input \notin ExistingInputs
       THEN cli' = [Exit(1, <<"ensureDir", "pathExists:false">>) EXCEPT
                       !.dirs = @ \cup {Dirname(cli.outputPath)}]
       ELSE cli' = [cli EXCEPT !.pc = "awaitCreate",
                               !.dirs = @ \cup {Dirname(cli.outputPath)},
                               !.content = CliContent(a),
                               !.pdfOptions = CliPdfOptions(CliOptionFields, cli.outputPath),
                               !.browser = "open",
                               !.log = @ \o <<"ensureDir", "setOptions", "create">>]
    /\ UNCHANGED srvVars

\* convertFromFile / convertFromURL / convertFromString up to the await of
\* this.htmlPDF.create inside convertHTML.
CliConvert ==
    /\ cli.pc = "convert"
    /\ LET a == cli.args IN
       IF a.input.given /\ a.input \notin ExistingInputs
       THEN cli' = Exit(1, <<"pathExists:false">>)
       ELSE cli' = [cli EXCEPT !.pc = "awaitCreate",
                               !.dirs = @ \cup {Dirname(cli.outputPath)},
                               !.content = CliContent(a),
                               !.pdfOptions = CliPdfOptions(CliOptionFields, cli.outputPath),
                               !.browser = "open",
                               !.log = @ \o <<"ensureDir", "setOptions", "create">>]
    /\ UNCHANGED srvVars

\* create settles; the finally block of convertHTML calls closeBrowser.
CliEngineCreate ==
    /\ cli.pc = "awaitCreate"
    /\ \E out \in CreateOutcomes(cli.content) :
        cli' = [cli EXCEPT !.pc = "awaitClose",
                           !.thrown = (out.kind # "ok"),
                           !.written = IF out.kind = "ok" THEN @ \cup {cli.outputPath} ELSE @,
                           !.log = @ \o <<"create:" \o out.kind, "closeBrowser">>]
    /\ UNCHANGED srvVars

\* After the try block of the action: its finally block calls
\* converter.close(), which process.exit(1) in the catch block pre-empts.
ActionFinally(c, thrown) ==
    IF thrown
    THEN [c EXCEPT !.pc = "exited", !.exit = 1, !.log = @ \o <<"exit">>]
    ELSE [c EXCEPT !.pc = "awaitClose2", !.log = @ \o <<"closeBrowser">>]

\* closeBrowser of convertHTML settles; convertHTML and the convertFrom*
\* wrapper settle and the action continues.
CliEngineClose ==
    /\ cli.pc = "awaitClose"
    /\ \E out \in CloseOutcomes :
        LET thrown == cli.thrown \/ out.kind = "raise"
            settled == [cli EXCEPT
                           !.thrown = thrown,
                           !.browser = IF out.kind = "ok" THEN "closed" ELSE @,
                           !.log = @ \o <<"closeBrowser:" \o out.kind>>]
        IN cli' = ActionFinally(settled, thrown)
    /\ UNCHANGED srvVars

\* closeBrowser of converter.close() settles and the process ends; an error
\* here escapes the action and is printed by main().catch(console.error).
CliCloseAgain ==
    /\ cli.pc = "awaitClose2"
    /\ \E out \in CloseOutcomes :
        cli' = [cli EXCEPT !.pc = "exited", !.exit = 0,
                           !.uncaught = (out.kind = "raise"),
                           !.log = @ \o <<"closeBrowser:" \o out.kind>>]
    /\ UNCHANGED srvVars

CliNext ==
    \/ CliStart
    \/ CliAction
    \/ CliConvert
    \/ CliEngineCreate
    \/ CliEngineClose
    \/ CliCloseAgain

Next == ServerNext

Spec == Init /\ [][Next]_vars

\* A run of the command line converter on its own.
CliSpec == Init /\ [][CliNext]_vars

\* One request to the server and one run of the command line converter.
BothNext == ServerStep("r1") \/ CliNext
BothSpec == Init /\ [][BothNext]_vars

\* The server observed with the options of a conversion request varied.
OptSpec == Init /\ [][OptNext]_vars

\* A run of the server in which every pending await settles and every
\* continuation runs: the event loop runs a continuation once its promise
\* has settled, and the engine is assumed to return or raise eventually.
LiveSpec ==
    /\ Init
    /\ [][Next]_vars
    /\ \A r \in Reqs :
        /\ WF_vars(ReadFile(r))
        /\ WF_vars(EngineCreate(r))
        /\ WF_vars(EngineClose(r))
        /\ WF_vars(ResumeRoute(r))
        /\ WF_vars(ResumeFile(r))
        /\ WF_vars(RemoveFile(r))

----------------------------------------------------------------------------
\* Properties

Has(s, e) == \E i \in DOMAIN s : s[i] = e
ConvertEndpoints == {"string", "file", "url"}

\* convertHTML has settled for request r (the route has been resumed).
Settled(r) == pc[r] \in {"resume", "awaitRemove", "done"} /\ Has(log[r], "create")
CloseSettled(r) == Has(log[r], "closeBrowser:ok") \/ Has(log[r], "closeBrowser:raise")
CreateFailed(r) == Has(log[r], "create:error") \/ Has(log[r], "create:timeout")

\* C1: once convertHTML has settled for a server request that invoked the
\* engine's create, closeBrowser has been invoked on that handle and has
\* settled, whether create returned, raised or timed out; so no finished
\* request leaves a used session on which closeBrowser was not run.
C1_ReleasedOnEveryExit ==
    \A r \in Reqs :
        Settled(r) =>
            /\ Count(log[r], "closeBrowser") = 1
            /\ CloseSettled(r)
            /\ conv[r].outcome \in {"ok", "error", "timeout"}

C1_Witness ==
    \E r \in Reqs :
        /\ pc[r] = "done"
        /\ conv[r].outcome = "timeout"
        /\ Count(log[r], "closeBrowser") = 1
        /\ conv[r].browser = "closed"

\* C2 (as claimed): in every terminal state of a file request whose upload
\* was stored (200, 500 on render failure, 500 on options parsing failure)
\* the stored file no longer exists in the upload directory.
C2_UploadDeletedOnEveryOutcome ==
    \A r \in Reqs :
        (pc[r] = "done" /\ req[r].endpoint = "file" /\ req[r].file.path # 0)
            => ~uploads[req[r].file.path].exists

\* C3 (as claimed): a session is closed exactly once per creation on every
\* exit path and at most one conversion is in flight per session, for the
\* server's per-request converter and for a finished command line run.
C3_ClosedExactlyOncePerCreation ==
    /\ \A r \in Reqs :
        /\ Count(log[r], "create") <= 1
        /\ pc[r] = "done" => Count(log[r], "closeBrowser") = Count(log[r], "create")
    /\ cli.pc # "off" =>
        /\ Count(cli.log, "create") <= 1
        /\ cli.pc = "exited" =>
              Count(cli.log, "closeBrowser") = Count(cli.log, "create")

\* C4 (as claimed): an upload that is neither text/html nor named *.html is
\* answered with 400 and a JSON error body.
C4_WrongTypeIs400 ==
    \A r \in Reqs :
        (/\ pc[r] = "done"
         /\ req[r].endpoint = "file"
         /\ req[r].file.present
         /\ req[r].file.mimetype # "text/html"
         /\ req[r].file.originalname[Len(req[r].file.originalname)] # ".html")
            => (resp[r].status = 400 /\ resp[r].kind = "json" /\ resp[r].error # <<>>)

NameIsHtml(f) == f.originalname[Len(f.originalname)] = ".html"
PastMulter(r) == pc[r] \notin {"idle", "received"}

\* C5: a non-HTML upload (wrong mimetype and no .html extension) never
\* reaches the route handler or convertHTML, makes no converter and leaves
\* nothing of its own in the upload directory; an upload within the size
\* limit whose mimetype is text/html or whose name ends with .html is
\* accepted: it is stored and handed to the route handler.
C5_NonHtmlRejectedBeforeRender ==
    \A r \in Reqs :
        (req[r].endpoint = "file" /\ req[r].file.present /\ PastMulter(r)) =>
            IF req[r].file.mimetype # "text/html" /\ ~NameIsHtml(req[r].file)
            THEN /\ pc[r] = "done"
                 /\ ~Has(log[r], "handler")
                 /\ ~Has(log[r], "create")
                 /\ ~conv[r].made
                 /\ req[r].file.path = 0
                 /\ \A n \in Suffixes : uploads[n].owner # r
                 /\ resp[r].status >= 400
            ELSE req[r].file.size <= FileSizeLimit =>
                 /\ req[r].file.path # 0
                 /\ Has(log[r], "write")
                 /\ (pc[r] = "done" => Has(log[r], "handler"))

C5_Witness ==
    \E r, q \in Reqs :
        /\ pc[r] = "done" /\ req[r].file.present
        /\ req[r].file.mimetype = "text/plain" /\ ~NameIsHtml(req[r].file)
        /\ pc[q] = "done" /\ req[q].file.present
        /\ req[q].file.mimetype = "text/html" /\ ~NameIsHtml(req[q].file)
        /\ resp[q].kind = "pdf"

Missing(v) == v = Undefined \/ v = Str("")

\* C6: on each conversion endpoint an absent or empty required input (html,
\* htmlFile, url) is answered with 400 and a JSON error body, and no
\* converter is made and no render attempted.
C6_MissingInputIs400 ==
    \A r \in Reqs :
        (/\ pc[r] = "done"
         /\ \/ req[r].endpoint \in {"string", "url"} /\ Missing(req[r].content)
            \/ req[r].endpoint = "file" /\ ~req[r].file.present)
            => /\ resp[r].status = 400
               /\ resp[r].kind = "json"
               /\ resp[r].contentType = "application/json"
               /\ resp[r].error # <<>>
               /\ ~conv[r].made
               /\ ~Has(log[r], "create")

C6_Witness ==
    \E r, q \in Reqs :
        /\ pc[r] = "done" /\ req[r].endpoint = "string" /\ req[r].content = Str("")
        /\ resp[r].status = 400
        /\ pc[q] = "done" /\ req[q].endpoint = "file" /\ ~req[q].file.present
        /\ resp[q].status = 400

\* convertHTML returned the buffer: create returned and closeBrowser returned.
RenderSucceeded(r) == Has(log[r], "create:ok") /\ Has(log[r], "closeBrowser:ok")

\* C7: on the three conversion endpoints the response is the PDF (content
\* type application/pdf, attachment converted.pdf, the bytes the engine
\* returned for this request's content) exactly when the render (convertHTML)
\* succeeded; otherwise it is a JSON error object with a non-2xx status and
\* no PDF bytes. Every finished request has one of these two responses.
C7_PdfIffRenderSucceeded ==
    \A r \in Reqs :
        (pc[r] = "done" /\ req[r].endpoint \in ConvertEndpoints) =>
            IF RenderSucceeded(r)
            THEN /\ resp[r].kind = "pdf"
                 /\ resp[r].status = 200
                 /\ resp[r].contentType = "application/pdf"
                 /\ resp[r].disposition = "attachment; filename=\"converted.pdf\""
                 /\ resp[r].bytes = "%PDF-1.4 " \o conv[r].content.val
            ELSE /\ resp[r].kind = "json"
                 /\ resp[r].contentType = "application/json"
                 /\ resp[r].status \notin 200..299
                 /\ resp[r].status # 0
                 /\ resp[r].error # <<>>
                 /\ resp[r].bytes = ""

C7_Witness ==
    \E r, q \in Reqs :
        /\ pc[r] = "done" /\ req[r].endpoint = "file" /\ resp[r].kind = "pdf"
        /\ pc[q] = "done" /\ req[q].endpoint = "url" /\ resp[q].status = 500
        /\ Has(log[q], "create:ok") /\ Has(log[q], "closeBrowser:raise")

\* C8 (as claimed): when create raises or times out, the response is 500
\* and its error field is the engine's message string: the message create
\* raised with or, when closeBrowser raised after it, the message of that.
C8_ErrorIsEngineMessage ==
    \A r \in Reqs :
        (pc[r] = "done" /\ CreateFailed(r)) =>
            /\ resp[r].status = 500
            /\ \/ resp[r].error = conv[r].engineMessage
               \/ /\ Has(log[r], "closeBrowser:raise")
                  /\ \E o \in CloseOutcomes : resp[r].error = o.message

\* C8 (amended): when create raises or times out, the response is 500 and
\* its error field is "PDF creation failed: " followed by the engine's
\* message string; when closeBrowser raises in the finally block, it is the
\* message of that error instead.
C8_ErrorIsWrappedEngineMessage ==
    \A r \in Reqs :
        (pc[r] = "done" /\ CreateFailed(r)) =>
            /\ resp[r].status = 500
            /\ resp[r].kind = "json"
            /\ IF Has(log[r], "closeBrowser:raise")
               THEN \E o \in CloseOutcomes : o.kind = "raise" /\ resp[r].error = o.message
               ELSE resp[r].error = <<"PDF creation failed: ">> \o conv[r].engineMessage

C8_Witness ==
    \E r \in Reqs :
        /\ pc[r] = "done"
        /\ Has(log[r], "create:error")
        /\ Has(log[r], "closeBrowser:ok")
        /\ resp[r].error = <<"PDF creation failed: ", "net::ERR_NAME_NOT_RESOLVED">>

\* C9: for a request whose render failed, closeBrowser was invoked and had
\* settled before the 500 response was sent: in the request's event trace
\* the close comes after the failure of create and before the response.
C9_TeardownBeforeErrorResponse ==
    \A r \in Reqs :
        (Has(log[r], "respond") /\ CreateFailed(r)) =>
            LET settle == IF Has(log[r], "closeBrowser:ok")
                          THEN Pos(log[r], "closeBrowser:ok")
                          ELSE Pos(log[r], "closeBrowser:raise")
            IN /\ resp[r].status = 500
               /\ 0 < Pos(log[r], "closeBrowser")
               /\ Pos(log[r], "closeBrowser") < settle
               /\ settle < Pos(log[r], "respond")

C9_Witness ==
    \E r \in Reqs :
        /\ req[r].endpoint = "string"
        /\ Has(log[r], "create:error")
        /\ Has(log[r], "closeBrowser:ok")
        /\ conv[r].browser = "closed"
        /\ resp[r].status = 500

\* C10: under LiveSpec a request that started a render eventually has
\* closeBrowser run on its engine handle and is eventually answered, and a
\* render that timed out is eventually answered with 500 (RenderFailed).
C10_TimeoutDoesNotHang ==
    \A r \in Reqs :
        (pc[r] = "awaitCreate") ~>
            (/\ pc[r] = "done"
             /\ CloseSettled(r)
             /\ conv[r].outcome = "timeout" => resp[r].status = 500)

C10_Witness ==
    \E r \in Reqs :
        /\ pc[r] = "done"
        /\ Has(log[r], "create:timeout")
        /\ CloseSettled(r)
        /\ resp[r].status = 500
        /\ resp[r].kind = "json"

\* No create is invoked after position i of an event trace.
NoCreateAfter(s, i) == \A j \in DOMAIN s : j > i => s[j] # "create"
AtMostOneAttempt(s) ==
    /\ Count(s, "create") <= 1
    /\ \A i \in DOMAIN s : s[i] \in {"create:error", "create:timeout"} => NoCreateAfter(s, i)

\* C11: the engine's create is invoked at most once per server request and
\* at most once per command line run, and after create has raised or timed
\* out no second create is invoked for that request or run.
C11_OneRenderAttempt ==
    /\ \A r \in Reqs : AtMostOneAttempt(log[r])
    /\ cli.pc # "off" => AtMostOneAttempt(cli.log)

C11_Witness ==
    /\ pc["r1"] = "done"
    /\ Has(log["r1"], "create:error")
    /\ Count(log["r1"], "create") = 1
    /\ cli.pc = "exited"
    /\ Has(cli.log, "create:timeout")
    /\ Count(cli.log, "create") = 1

\* The options record a string or url request hands to convertHTML, and
\* whether convertHTML got as far as setOptions with it.
CallerFields(r) == DefaultParam(req[r].options).fields
OptionsSet(r) == req[r].endpoint \in {"string", "url"} /\ Has(log[r], "setOptions")

\* C12: the record handed to the engine by the server's convertHTML has all
\* six option fields; a field the caller left out has its documented default
\* (A4, portrait i.e. landscape false, 20px on all four sides, printBackground
\* true, scale 1.0, timeout 30000) and a field the caller gave has the
\* caller's value unchanged (orientation as the landscape flag it denotes,
\* margin as the object given).
C12_ResolveDefaultsAndPreserves ==
    \A r \in Reqs :
        OptionsSet(r) =>
            LET f == CallerFields(r)
                p == conv[r].pdfOptions
                Given(k) == k \in DOMAIN f
            IN /\ {"format", "landscape", "margin", "printBackground", "scale", "timeout"}
                      \subseteq DOMAIN p
               /\ p.format = IF Given("format") THEN f.format ELSE "A4"
               /\ p.landscape = IF Given("orientation") THEN f.orientation = "landscape"
                                 ELSE FALSE
               /\ p.margin = IF Given("margin") THEN f.margin
                              ELSE [top |-> "20px", bottom |-> "20px",
                                    left |-> "20px", right |-> "20px"]
               /\ p.printBackground = IF Given("printBackground") THEN f.printBackground
                                       ELSE TRUE
               /\ p.scale = IF Given("scale") THEN f.scale ELSE 10
               /\ p.timeout = IF Given("timeout") THEN f.timeout ELSE 30000

C12_Witness ==
    \E r \in Reqs :
        /\ OptionsSet(r)
        /\ DOMAIN CallerFields(r) = {"format", "scale"}
        /\ conv[r].pdfOptions.format = "Letter"
        /\ conv[r].pdfOptions.scale = 15
        /\ conv[r].pdfOptions.timeout = 30000
        /\ conv[r].pdfOptions.margin.left = "20px"

Sides == {"top", "bottom", "left", "right"}

\* C13 (as claimed): when the caller gives a margin, every side of the
\* margin handed to the engine is the caller's value for that side or, for
\* a side the caller left out, the 20px default.
C13_MarginSidesKeepDefaults ==
    \A r \in Reqs :
        (OptionsSet(r) /\ "margin" \in DOMAIN CallerFields(r)) =>
            \A side \in Sides :
                /\ side \in DOMAIN conv[r].pdfOptions.margin
                /\ conv[r].pdfOptions.margin[side] =
                      IF side \in DOMAIN CallerFields(r).margin
                      THEN CallerFields(r).margin[side] ELSE "20px"

\* C14 (as claimed): whatever value the options member of the body has,
\* a string request with HTML content gets through option resolution:
\* once its handler has run, setOptions has been reached, and the request
\* is not answered with the TypeError of a failed destructuring.
C14_ResolutionNeverThrows ==
    \A r \in Reqs :
        (/\ req[r].endpoint = "string"
         /\ ~Missing(req[r].content)
         /\ Has(log[r], "handler"))
            => /\ Has(log[r], "setOptions")
               /\ resp[r].error # TypeErrorMessage

\* The engine configuration convertHTML builds when no option is given.
DefaultConfiguration ==
    [format |-> "A4", landscape |-> FALSE,
     margin |-> [top |-> "20px", bottom |-> "20px", left |-> "20px", right |-> "20px"],
     printBackground |-> TRUE, scale |-> 10, timeout |-> 30000,
     headless |-> "new", args |-> <<"--no-sandbox", "--disable-setuid-sandbox">>]

Range(s) == {s[i] : i \in DOMAIN s}

\* C15: the answer of GET /api/options lists exactly the 11 format names
\* and the 2 orientations, and a conversion posted with the defaultOptions
\* of that answer hands the engine the same configuration as one posted
\* with no options or with an empty options object.
C15_AdvertisedDefaultsRoundTrip ==
    \A r \in Reqs :
        /\ resp[r].kind = "options" =>
              /\ Len(resp[r].body.formats) = 11
              /\ Range(resp[r].body.formats) =
                    {"A4", "Letter", "Legal", "Tabloid", "Ledger", "A0", "A1", "A2",
                     "A3", "A5", "A6"}
              /\ Len(resp[r].body.orientations) = 2
              /\ Range(resp[r].body.orientations) = {"portrait", "landscape"}
        /\ \A q \in Reqs :
              (/\ OptionsSet(q)
               /\ \/ req[q].options \in {OptUndefined, Obj(EmptyFields)}
                  \/ resp[r].kind = "options"
                     /\ req[q].options = Obj(resp[r].body.defaultOptions))
                => conv[q].pdfOptions = DefaultConfiguration

C15_Witness ==
    /\ resp["r1"].kind = "options"
    /\ req["r2"].options = Obj(resp["r1"].body.defaultOptions)
    /\ OptionsSet("r2")
    /\ conv["r2"].pdfOptions = DefaultConfiguration

StringRequest(r) == req[r].endpoint = "string" /\ ~Missing(req[r].content)

\* The state the server keeps for request r.
Own(r) == <<pc[r], req[r], conv[r], resp[r], log[r]>>

\* C16: with two string conversions in flight in any interleaving,
\* (a) when the engine succeeds for both, both are answered 200 with the
\* PDF of their own content; (b) no step taken for one request changes the
\* other's converter, engine handle, response or position, so a
\* closeBrowser of one never closes the other's session; (c) a request
\* under way always has a step of its own enabled, whatever the other does.
C16_ConcurrentStringsIndependent ==
    /\ [](\A r \in Reqs :
            /\ (StringRequest(r) /\ pc[r] = "done" /\ RenderSucceeded(r)) =>
                  /\ resp[r].status = 200
                  /\ resp[r].kind = "pdf"
                  /\ resp[r].bytes = "%PDF-1.4 " \o req[r].content.val
            /\ (StringRequest(r) /\ pc[r] \notin {"idle", "done"}) => ENABLED ServerStep(r)
            /\ (StringRequest(r) /\ conv[r].browser = "closed") => Has(log[r], "closeBrowser:ok"))
    /\ [][\A r, q \in Reqs :
            (r # q /\ StringRequest(r) /\ Own(r)' # Own(r)) => Own(q)' = Own(q)]_vars

C16_Witness ==
    /\ \A r \in Reqs :
        /\ StringRequest(r)
        /\ pc[r] = "done"
        /\ RenderSucceeded(r)
        /\ resp[r].kind = "pdf"
        /\ conv[r].browser = "closed"

\* The upload of request r is stored and r is not answered yet.
HoldsUpload(r) == req[r].endpoint = "file" /\ req[r].file.path # 0 /\ pc[r] # "done"

\* C17 (as claimed): two file requests that hold an upload at the same time
\* hold it under different names, and the entry under a request's name is
\* the one that request wrote.
C17_UploadNamesDistinct ==
    \A r, q \in Reqs :
        (r # q /\ HoldsUpload(r) /\ HoldsUpload(q)) =>
            /\ req[r].file.path # req[q].file.path
            /\ uploads[req[r].file.path].exists => uploads[req[r].file.path].owner = r

\* C18 (as claimed): what a string request hands to create is its html
\* member unchanged and what a file request hands is the text of its upload,
\* and the engine takes both as markup; what a url request hands is its url
\* member, and only that is taken as a navigation target.
C18_InputFormNeverMixed ==
    \A r \in Reqs :
        Has(log[r], "create") =>
            /\ req[r].endpoint = "string" =>
                  conv[r].content = req[r].content /\ HandedAs(conv[r].content) = "markup"
            /\ req[r].endpoint = "file" =>
                  conv[r].content = Str(req[r].file.data) /\ HandedAs(conv[r].content) = "markup"
            /\ req[r].endpoint = "url" =>
                  conv[r].content = req[r].content
                  /\ HandedAs(conv[r].content) = "navigation target"

\* The multipart layer raised for request r: the file filter refused the
\* upload, or the upload went over the size limit and was unlinked.
MulterRaised(r) == Has(log[r], "fileFilter:reject") \/ Has(log[r], "unlink")

\* C19: a request to no defined endpoint is answered 404 with the JSON
\* object {error: 'Endpoint not found'}; an error raised by the multipart
\* layer, which no route handler catches, is answered by the error
\* middleware with 500 and the JSON object {error: <its message>}, and the
\* route handler does not run.
C19_FallbackHandlers ==
    \A r \in Reqs :
        pc[r] = "done" =>
            /\ req[r].endpoint = "other" =>
                  /\ resp[r].status = 404
                  /\ resp[r].kind = "json"
                  /\ resp[r].contentType = "application/json"
                  /\ resp[r].error = <<"Endpoint not found">>
            /\ MulterRaised(r) =>
                  /\ resp[r].status = 500
                  /\ resp[r].kind = "json"
                  /\ resp[r].contentType = "application/json"
                  /\ resp[r].error = IF Has(log[r], "fileFilter:reject")
                                      THEN <<"Only HTML files are allowed!">>
                                      ELSE <<"File too large">>
                  /\ ~Has(log[r], "handler")

C19_Witness ==
    \E r, q \in Reqs :
        /\ pc[r] = "done" /\ req[r].endpoint = "other" /\ resp[r].status = 404
        /\ pc[q] = "done" /\ Has(log[q], "fileFilter:reject") /\ resp[q].status = 500

\* C20: an upload of more than 10 * 1024 * 1024 bytes is answered with an
\* error by the multipart layer: the route handler never runs for it, it is
\* not read, no converter is made and create is not invoked; an upload of
\* at most that size that passes the file filter is stored and handed to
\* the route handler.
C20_UploadSizeLimit ==
    \A r \in Reqs :
        (req[r].endpoint = "file" /\ req[r].file.present /\ PastMulter(r)) =>
            IF req[r].file.size > 10 * 1024 * 1024
            THEN /\ pc[r] = "done"
                 /\ ~Has(log[r], "handler")
                 /\ ~Has(log[r], "readFile")
                 /\ ~Has(log[r], "create")
                 /\ ~conv[r].made
                 /\ req[r].file.path = 0
                 /\ resp[r].kind = "json"
                 /\ resp[r].status >= 400
                 /\ resp[r].error # <<>>
            ELSE (req[r].file.mimetype = "text/html" \/ NameIsHtml(req[r].file)) =>
                 /\ req[r].file.path # 0
                 /\ Has(log[r], "write") /\ ~Has(log[r], "unlink")
                 /\ pc[r] = "done" => Has(log[r], "handler")

C20_Witness ==
    \E r, q \in Reqs :
        /\ pc[r] = "done" /\ req[r].file.present
        /\ req[r].file.size = 10 * 1024 * 1024 + 1
        /\ resp[r].status = 500
        /\ pc[q] = "done" /\ req[q].file.present
        /\ req[q].file.size = 10 * 1024 * 1024
        /\ resp[q].kind = "pdf"

\* The options text of the test client and the configuration it denotes.
LetterLandscapeText ==
    Str("{\"format\":\"Letter\",\"orientation\":\"landscape\",\"margin\":{\"top\":\"5px\"}}")
LetterLandscapeConfiguration ==
    [format |-> "Letter", landscape |-> TRUE, margin |-> [top |-> "5px"],
     printBackground |-> TRUE, scale |-> 10, timeout |-> 30000,
     headless |-> "new", args |-> <<"--no-sandbox", "--disable-setuid-sandbox">>]

\* C21: on the file endpoint a request without the options field is
\* converted with the default configuration, a request whose options field
\* is a JSON object text is converted with the configuration that object
\* resolves to, and in both cases the request is answered with the PDF when
\* the render succeeds.
C21_FileOptionsField ==
    \A r \in Reqs :
        (req[r].endpoint = "file" /\ Has(log[r], "setOptions")) =>
            /\ req[r].optionsField = Undefined => conv[r].pdfOptions = DefaultConfiguration
            /\ req[r].optionsField = LetterLandscapeText =>
                  conv[r].pdfOptions = LetterLandscapeConfiguration
            /\ (pc[r] = "done" /\ RenderSucceeded(r)) =>
                  (resp[r].status = 200 /\ resp[r].kind = "pdf")

C21_Witness ==
    \E r, q \in Reqs :
        /\ pc[r] = "done" /\ req[r].endpoint = "file"
        /\ req[r].optionsField = LetterLandscapeText
        /\ resp[r].kind = "pdf"
        /\ conv[r].pdfOptions.format = "Letter"
        /\ pc[q] = "done" /\ req[q].endpoint = "file"
        /\ req[q].optionsField = Undefined
        /\ resp[q].kind = "pdf"

\* No directory is ensured after position i of a command line trace.
NoEnsureDirAfter(s, i) == \A j \in DOMAIN s : j > i => s[j] # "ensureDir"

\* C22: a command line run whose converter was made for an input file that
\* does not exist ends with exit status 1 after the existence check failed:
\* create is not invoked, no browser is opened, no output file is written,
\* and convertFromFile ensures no directory (the only directory the run may
\* have made is the uploads directory its action ensures on entry in the
\* -o optional variant).
C22_MissingInputFailsBeforeRender ==
    (/\ cli.pc = "exited"
     /\ Has(cli.log, "new")
     /\ cli.args.input.given
     /\ cli.args.input \notin {Path(FALSE, <<>>, "sample", ".html")})
        => /\ Has(cli.log, "pathExists:false")
           /\ cli.exit = 1
           /\ ~cli.uncaught
           /\ ~Has(cli.log, "create")
           /\ ~Has(cli.log, "setOptions")
           /\ cli.browser = "none"
           /\ cli.written = {}
           /\ NoEnsureDirAfter(cli.log, Pos(cli.log, "new"))
           /\ cli.dirs = IF cli.args.variant = "optional"
                          THEN {[abs |-> TRUE, dirs |-> <<"app", "uploads">>]} ELSE {}

C22_Witness ==
    /\ cli.pc = "exited"
    /\ cli.args.input = Path(FALSE, <<"docs">>, "missing", ".html")
    /\ cli.args.output = Path(TRUE, <<"tmp">>, "out", ".pdf")
    /\ Has(cli.log, "pathExists:false")
    /\ cli.exit = 1

\* A command line run that converts its -u argument: no -i (which takes
\* precedence), and -o given where it is required.
CliTakesUrl ==
    /\ cli.pc # "off"
    /\ cli.args.url.given
    /\ ~cli.args.input.given
    /\ cli.args.variant = "required" => cli.args.output.given

\* C23 (as claimed): a non-empty URL, well-formed or not, is handed to
\* create unchanged: by the url route once its handler has run with options
\* that resolve, and by every finished command line run that converts its
\* -u argument, which does not fail before the engine is invoked.
C23_UrlNotValidatedLocally ==
    /\ \A r \in Reqs :
          (/\ req[r].endpoint = "url"
           /\ ~Missing(req[r].content)
           /\ req[r].options.type # "null"
           /\ Has(log[r], "handler"))
              => (Has(log[r], "create") /\ conv[r].content = req[r].content)
    /\ (CliTakesUrl /\ cli.pc = "exited") =>
          /\ Has(cli.log, "create")
          /\ cli.content = Str(cli.args.url.text)
          /\ ~cli.uncaught

\* The name the default output is derived from: the input file's name
\* without extension, the URL's hostname with '_' for '.', or 'string'.
SourceName(a) ==
    IF a.input.given THEN a.input.stem
    ELSE IF a.url.given THEN Sanitize(a.url.host)
    ELSE "string"

\* C24 (as claimed): in the -o optional variant, once the action of a run
\* with a source is past its output path resolution, the uploads directory
\* exists and the output path is: without -o, <uploads>/<source
\* name>_<timestamp>.pdf; with a relative -o not under 'uploads/', that
\* path under the uploads directory; with an absolute -o, that path.
C24_OutputPathResolution ==
    (/\ cli.pc \notin {"off", "action"}
     /\ cli.args.variant = "optional"
     /\ ~NoSource(cli.args))
        => /\ [abs |-> TRUE, dirs |-> <<"app", "uploads">>] \in cli.dirs
           /\ ~cli.args.output.given =>
                 /\ cli.outputPath.given
                 /\ cli.outputPath.abs
                 /\ cli.outputPath.dirs = <<"app", "uploads">>
                 /\ cli.outputPath.stem = SourceName(cli.args) \o "_" \o cli.timestamp
                 /\ cli.outputPath.ext = ".pdf"
           /\ (/\ cli.args.output.given
               /\ ~cli.args.output.abs
               /\ ~(Len(cli.args.output.dirs) > 0 /\ cli.args.output.dirs[1] = "uploads")) =>
                 cli.outputPath = [cli.args.output EXCEPT
                                      !.abs = TRUE,
                                      !.dirs = <<"app", "uploads">> \o @]
           /\ cli.args.output.abs => cli.outputPath = cli.args.output

\* The run fails the argument validation of its variant.
InvalidArguments(a) ==
    \/ ~a.input.given /\ ~a.url.given /\ a.string \in {Undefined, Str("")}
    \/ a.variant = "required" /\ ~a.output.given

\* C25: a command line run without -i, -u and -s, or without -o in the
\* variant that requires it, ends with exit status 1 and has made no
\* converter, opened no browser, invoked no create and written no file.
C25_ValidationPrecedesConversion ==
    (cli.pc \notin {"off", "action"} /\ InvalidArguments(cli.args))
        => /\ cli.pc = "exited"
           /\ cli.exit = 1
           /\ ~cli.uncaught
           /\ ~cli.made
           /\ ~Has(cli.log, "new")
           /\ ~Has(cli.log, "create")
           /\ cli.browser = "none"
           /\ cli.written = {}

C25_Witness ==
    /\ cli.pc = "exited"
    /\ cli.args.variant = "required"
    /\ ~cli.args.output.given
    /\ cli.args.url.given
    /\ cli.exit = 1
    /\ ~cli.made

\* C26: a request to a conversion endpoint never has more than one
\* response sent, and it has exactly one when it is over; under LiveSpec
\* (create, closeBrowser and the file system calls settle) a request whose
\* route handler has run is eventually over with its one response (a
\* response, once sent, stays sent, so "again and again no request is
\* left between its handler and its response" says that of each request).
C26_ExactlyOneResponse ==
    /\ [](\A r \in Reqs :
            req[r].endpoint \in ConvertEndpoints =>
                /\ Count(log[r], "respond") <= 1
                /\ pc[r] = "done" <=> Count(log[r], "respond") = 1
                /\ pc[r] = "done" <=> resp[r].status # 0)
    /\ []<>(\A r \in Reqs :
            (req[r].endpoint \in ConvertEndpoints /\ Has(log[r], "handler"))
                => (pc[r] = "done" /\ Count(log[r], "respond") = 1 /\ resp[r].status # 0))

C26_Witness ==
    \E r, q \in Reqs :
        /\ pc[r] = "done" /\ req[r].endpoint = "file" /\ Has(log[r], "handler")
        /\ Has(log[r], "create:error") /\ Count(log[r], "respond") = 1
        /\ pc[q] = "done" /\ req[q].endpoint = "string" /\ resp[q].status = 400
        /\ Count(log[q], "respond") = 1

\* C27: the configuration the server hands to the engine has exactly the
\* keys format, landscape, margin, printBackground, scale, timeout, headless
\* and args, with headless 'new' and the two sandbox arguments whatever the
\* caller sent: a key of the caller's options that is not one of the six
\* option fields (path, headless, args) has no influence on it.
C27_OnlySixFieldsForwarded ==
    \A r \in Reqs :
        OptionsSet(r) =>
            /\ DOMAIN conv[r].pdfOptions =
                  {"format", "landscape", "margin", "printBackground", "scale", "timeout",
                   "headless", "args"}
            /\ conv[r].pdfOptions.headless = "new"
            /\ conv[r].pdfOptions.args = <<"--no-sandbox", "--disable-setuid-sandbox">>

C27_Witness ==
    \E r \in Reqs :
        /\ OptionsSet(r)
        /\ "headless" \in DOMAIN CallerFields(r)
        /\ CallerFields(r).headless = "shell"
        /\ conv[r].pdfOptions.headless = "new"

\* The options field of request r was not valid JSON.
BadOptionsJson(r) ==
    req[r].endpoint = "file" /\ req[r].file.path # 0 /\ Has(log[r], "JSON.parse:throw")

\* C28 (as claimed): a file request with a stored upload whose options
\* field is not valid JSON is answered 500 with a JSON error; its upload is
\* not read, no converter is made, no render attempted, and when the
\* response has been sent the uploaded file is in the upload directory.
C28_BadOptionsJsonLeavesUpload ==
    [][\A r \in Reqs :
        (pc[r] # "done" /\ pc'[r] = "done" /\ BadOptionsJson(r)') =>
            /\ resp'[r].status = 500
            /\ resp'[r].kind = "json"
            /\ resp'[r].error # <<>>
            /\ ~Has(log'[r], "readFile")
            /\ ~conv'[r].made
            /\ ~Has(log'[r], "create")
            /\ ~Has(log'[r], "remove")
            /\ uploads'[req[r].file.path].exists]_vars

\* create returned the PDF for request r and closeBrowser then raised.
CloseRaisedAfterSuccess(r) == Has(log[r], "create:ok") /\ Has(log[r], "closeBrowser:raise")

\* C29: a request for which create returned and closeBrowser then raised
\* is answered 500 with a JSON error carrying the message of the close
\* error and no PDF bytes; a file request on this path does not call
\* fs.remove on its upload.
C29_CloseErrorReplacesResult ==
    \A r \in Reqs :
        (pc[r] = "done" /\ CloseRaisedAfterSuccess(r)) =>
            /\ conv[r].bytes # ""
            /\ resp[r].status = 500
            /\ resp[r].kind = "json"
            /\ resp[r].contentType = "application/json"
            /\ resp[r].bytes = ""
            /\ resp[r].error = <<"Protocol error: Target closed">>
            /\ ~Has(log[r], "remove")

C29_Witness ==
    \E r \in Reqs :
        /\ pc[r] = "done"
        /\ req[r].endpoint = "file"
        /\ CloseRaisedAfterSuccess(r)
        /\ resp[r].status = 500
        /\ ~Has(log[r], "remove")
        /\ uploads[req[r].file.path].exists

\* C30: the landscape flag handed to the engine is true exactly when the
\* caller's orientation is the string 'landscape'; with no orientation,
\* with 'portrait' and with any other string ('Landscape') it is false, and
\* the request is not rejected for it: it goes on to create.
C30_LandscapeIffExact ==
    \A r \in Reqs :
        /\ OptionsSet(r) =>
              (conv[r].pdfOptions.landscape = TRUE
                 <=> ("orientation" \in DOMAIN CallerFields(r)
                      /\ CallerFields(r).orientation = "landscape"))
        /\ (/\ StringRequest(r)
            /\ req[r].options.type = "object"
            /\ Has(log[r], "handler"))
              => (Has(log[r], "setOptions") /\ Has(log[r], "create"))

C30_Witness ==
    \E r \in Reqs :
        /\ OptionsSet(r)
        /\ "orientation" \in DOMAIN CallerFields(r)
        /\ CallerFields(r).orientation = "Landscape"
        /\ conv[r].pdfOptions.landscape = FALSE
        /\ Has(log[r], "create:ok")

====
